---- MODULE Spec2Model ----
(***************************************************************************)
(* Student Marks Analysis System (src/Student-Marks-analysis.py).          *)
(*                                                                         *)
(* The program builds a students x subjects table of marks, reduces every  *)
(* row to mean / max / min / population standard deviation with NumPy,     *)
(* ranks the students by mean, prints the tables and (demo mode only)      *)
(* writes a report file.                                                   *)
(*                                                                         *)
(* NumPy arrays of marks are float64 (np.zeros in interactive mode; the    *)
(* int64 demo table is converted to float64 by np.mean / np.std).  TLC's   *)
(* integers are 32 bits wide, so a float64 is kept here as an exact        *)
(* 53-bit mantissa, written in limbs of 15 bits, and a binary exponent;    *)
(* every arithmetic operation rounds to nearest, ties to even, as IEEE 754 *)
(* does.  Marks are non-negative and finite (no NaN, no infinity, no       *)
(* subnormal), which is the spec's data model.                             *)
(***************************************************************************)
EXTENDS Integers, Sequences, FiniteSets, TLC

(***************************************************************************)
(* Natural numbers of any size: little-endian sequences of limbs below     *)
(* Base, without leading zero limbs; zero is the empty sequence.  The      *)
(* operations are written limb by limb, with the carries in closed form.   *)
(***************************************************************************)
Base == 2^15

\* The count of bits of an integer 0 <= n < 2^30.
IntBitLen(n) == CHOOSE b \in 0..30 : n < 2^b /\ (b = 0 \/ n >= 2^(b - 1))

\* The bits of one limb.
LimbBits == IntBitLen(Base - 1)

\* Limb i of a, zero outside of a.
Limb(a, i) == IF i >= 1 /\ i <= Len(a) THEN a[i] ELSE 0

\* a without its leading zero limbs.
BNorm(a) ==
  IF \A i \in 1..Len(a) : a[i] = 0 THEN <<>>
  ELSE SubSeq(a, 1, CHOOSE n \in 1..Len(a) :
                      a[n] # 0 /\ \A k \in (n + 1)..Len(a) : a[k] = 0)

BFromInt(n) ==
  IF n = 0 THEN <<>>
  ELSE IF n < Base THEN <<n>>
  ELSE <<n % Base, n \div Base>>

\* The carry into limb i of a + b: a lower limb pair overflows and every pair
\* between passes the carry on.
AddCarry(a, b, i) ==
  \E g \in 1..(i - 1) :
    /\ Limb(a, g) + Limb(b, g) >= Base
    /\ \A k \in (g + 1)..(i - 1) : Limb(a, k) + Limb(b, k) = Base - 1

BAdd(a, b) ==
  BNorm([i \in 1..((IF Len(a) > Len(b) THEN Len(a) ELSE Len(b)) + 1) |->
           (Limb(a, i) + Limb(b, i) + (IF AddCarry(a, b, i) THEN 1 ELSE 0))
             % Base])

\* The borrow from limb i of a - b.
SubBorrow(a, b, i) ==
  \E g \in 1..(i - 1) :
    /\ Limb(a, g) < Limb(b, g)
    /\ \A k \in (g + 1)..(i - 1) : Limb(a, k) = Limb(b, k)

\* a - b for a >= b.
BSub(a, b) ==
  BNorm([i \in 1..Len(a) |->
           (Base + Limb(a, i) - Limb(b, i)
              - (IF SubBorrow(a, b, i) THEN 1 ELSE 0)) % Base])

\* -1, 0, 1 as a < b, a = b, a > b: the highest limb that differs decides.
BCmp(a, b) ==
  IF Len(a) < Len(b) THEN -1
  ELSE IF Len(a) > Len(b) THEN 1
  ELSE IF \A i \in 1..Len(a) : a[i] = b[i] THEN 0
  ELSE LET h == CHOOSE i \in 1..Len(a) :
                  a[i] # b[i] /\ \A k \in (i + 1)..Len(a) : a[k] = b[k]
       IN  IF a[h] < b[h] THEN -1 ELSE 1

\* a * k for 0 <= k < Base: the low halves of the limb products plus their
\* high halves one limb up.
BMulSmall(a, k) ==
  BAdd([i \in 1..Len(a) |-> (a[i] * k) % Base],
       [i \in 1..(Len(a) + 1) |-> (Limb(a, i - 1) * k) \div Base])

\* The sum over i <= n of what the limb products a[i] * b[c + 1 - i] (low
\* halves) and a[i] * b[c - i] (high halves) put into column c.
RECURSIVE MulColumn(_, _, _, _)
MulColumn(a, b, c, n) ==
  IF n = 0 THEN 0
  ELSE MulColumn(a, b, c, n - 1)
         + ((a[n] * Limb(b, c + 1 - n)) % Base)
         + ((a[n] * Limb(b, c - n)) \div Base)

BMul(a, b) ==
  BAdd([c \in 1..(Len(a) + Len(b)) |-> MulColumn(a, b, c, Len(a)) % Base],
       [c \in 1..(Len(a) + Len(b) + 1) |->
          IF c = 1 THEN 0 ELSE MulColumn(a, b, c - 1, Len(a)) \div Base])

\* Long division by k, 0 < k < Base: what is left of the limbs from i up.
RECURSIVE DivRem(_, _, _)
DivRem(a, k, i) ==
  IF i > Len(a) THEN 0 ELSE (DivRem(a, k, i + 1) * Base + a[i]) % k

\* Quotient and remainder of a by k, 0 < k < Base.
BDivMod(a, k) ==
  [q |-> BNorm([i \in 1..Len(a) |-> (DivRem(a, k, i + 1) * Base + a[i]) \div k]),
   r |-> DivRem(a, k, 1)]

\* a * 2^s: limb i takes the low bits of limb i - w and the high bits of the
\* limb below it (w whole limbs and r bits of shift).
BShl(a, s) ==
  IF a = <<>> THEN <<>>
  ELSE LET w == s \div LimbBits
           r == s % LimbBits
       IN  BNorm([i \in 1..(Len(a) + w + 1) |->
                    (Limb(a, i - w) % 2^(LimbBits - r)) * 2^r
                      + Limb(a, i - w - 1) \div 2^(LimbBits - r)])

\* floor(a / 2^s)
BShr(a, s) ==
  LET w == s \div LimbBits
      r == s % LimbBits
  IN  IF Len(a) <= w THEN <<>>
      ELSE BNorm([i \in 1..(Len(a) - w) |->
                    Limb(a, i + w) \div 2^r
                      + (Limb(a, i + w + 1) % 2^r) * 2^(LimbBits - r)])

BBitLen(a) ==
  IF a = <<>> THEN 0 ELSE (Len(a) - 1) * LimbBits + IntBitLen(a[Len(a)])

\* The value of a natural below 2^31 held in limbs.
RECURSIVE BToInt(_)
BToInt(a) == IF a = <<>> THEN 0 ELSE Head(a) + Base * BToInt(Tail(a))

\* floor(sqrt(n)) of an integer 0 <= n < Base^2: the root's bits RootStep at a
\* time, from the top.
RootStep == 2^5

RootFrom(n, r, unit) ==
  r + unit * (CHOOSE d \in 0..(RootStep - 1) :
                /\ (r + unit * d) * (r + unit * d) <= n
                /\ (d = RootStep - 1
                      \/ (r + unit * (d + 1)) * (r + unit * (d + 1)) > n))

IntIsqrt(n) ==
  RootFrom(n, RootFrom(n, RootFrom(n, 0, RootStep * RootStep), RootStep), 1)

\* The largest d <= guess with (t + d) * d <= rem.
RECURSIVE RootDigit(_, _, _)
RootDigit(t, rem, d) ==
  IF BCmp(BMulSmall(BAdd(t, BFromInt(d)), d), rem) <= 0 THEN d
  ELSE RootDigit(t, rem, d - 1)

\* Square root with remainder, one limb of the root per pair of limbs of n
\* (n has an even count of limbs and its top limb is at least Base / 4, so that
\* the top limb of the root is at least Base / 2): root = floor(sqrt(n)) and
\* rem = n - root^2.  The next limb d of a root r is the largest with
\* (2 r Base + d) d <= rem; d <= rem / (2 r Base), which the top limb of r
\* bounds from above by guess.
RECURSIVE BSqrtRem(_)
BSqrtRem(n) ==
  IF n = <<>> THEN [root |-> <<>>, rem |-> <<>>]
  ELSE LET hi   == BSqrtRem(SubSeq(n, 3, Len(n)))
           rem1 == BNorm(<<n[1], n[2]>> \o hi.rem)
       IN  IF hi.root = <<>>
           THEN LET r == IntIsqrt(n[1] + Base * n[2])
                IN  [root |-> BFromInt(r),
                     rem  |-> BFromInt(n[1] + Base * n[2] - r * r)]
           ELSE LET t     == <<0>> \o BMulSmall(hi.root, 2)
                    top   == BToInt(BShr(rem1, LimbBits * Len(hi.root) + 1))
                    q     == (top + 1) \div hi.root[Len(hi.root)]
                    guess == IF q < Base THEN q ELSE Base - 1
                    d     == RootDigit(t, rem1, guess)
                IN  [root |-> <<d>> \o hi.root,
                     rem  |-> BSub(rem1, BMulSmall(BAdd(t, BFromInt(d)), d))]

(***************************************************************************)
(* float64: [m, e] is m * 2^e with m of exactly MantBits bits, or zero.    *)
(***************************************************************************)
MantBits == 53

FZero == [m |-> <<>>, e |-> 0]

\* (n + f) * 2^e, 0 <= f < 1 and f > 0 iff sticky, rounded to nearest, ties to
\* even.  A sticky n comes with more than MantBits + 1 bits.
FRound(n, e, sticky) ==
  IF n = <<>> THEN FZero
  ELSE LET L == BBitLen(n) IN
    IF L <= MantBits
    THEN [m |-> BShl(n, MantBits - L), e |-> e - (MantBits - L)]
    ELSE LET s    == L - MantBits
             q    == BShr(n, s)
             rem  == BSub(n, BShl(q, s))
             c    == BCmp(rem, BShl(<<1>>, s - 1))
             up   == c = 1 \/ (c = 0 /\ (sticky \/ q[1] % 2 = 1))
             q1   == IF up THEN BAdd(q, <<1>>) ELSE q
         IN  IF BBitLen(q1) > MantBits
             THEN [m |-> BShr(q1, 1), e |-> e + s + 1]
             ELSE [m |-> q1, e |-> e + s]

FFromInt(n) == FRound(BFromInt(n), 0, FALSE)

FCmp(a, b) ==
  IF a.m = <<>> THEN (IF b.m = <<>> THEN 0 ELSE -1)
  ELSE IF b.m = <<>> THEN 1
  ELSE IF a.e < b.e THEN -1
  ELSE IF a.e > b.e THEN 1
  ELSE BCmp(a.m, b.m)

FLe(a, b) == FCmp(a, b) <= 0

FMinExp(a, b) ==
  IF a.m = <<>> THEN b.e ELSE IF b.m = <<>> THEN a.e
  ELSE IF a.e < b.e THEN a.e ELSE b.e

FAdd(a, b) ==
  IF a.m = <<>> THEN b
  ELSE IF b.m = <<>> THEN a
  ELSE LET e == FMinExp(a, b)
       IN  FRound(BAdd(BShl(a.m, a.e - e), BShl(b.m, b.e - e)), e, FALSE)

\* |a - b|
FAbsDiff(a, b) ==
  IF a = b THEN FZero
  ELSE LET e  == FMinExp(a, b)
           x  == BShl(a.m, a.e - e)
           y  == BShl(b.m, b.e - e)
       IN  FRound(IF BCmp(x, y) >= 0 THEN BSub(x, y) ELSE BSub(y, x), e, FALSE)

FMul(a, b) ==
  IF a.m = <<>> \/ b.m = <<>> THEN FZero
  ELSE FRound(BMul(a.m, b.m), a.e + b.e, FALSE)

\* a / k for an integer 0 < k < Base (a count, exact as a float64).
GuardBits == LimbBits + 2
FDivInt(a, k) ==
  IF a.m = <<>> THEN FZero
  ELSE LET d == BDivMod(BShl(a.m, GuardBits), k)
       IN  FRound(d.q, a.e - GuardBits, d.r # 0)

\* sqrt(a): the mantissa shifted to SqrtBits or SqrtBits - 1 bits (the exponent
\* left even), its integer root of SqrtBits / 2 bits, and the remainder as the
\* sticky bit.
SqrtBits == 8 * LimbBits
FSqrt(a) ==
  IF a.m = <<>> THEN FZero
  ELSE LET k == IF (a.e - (SqrtBits - MantBits)) % 2 = 0
                THEN SqrtBits - MantBits ELSE SqrtBits - MantBits - 1
           sr == BSqrtRem(BShl(a.m, k))
       IN  FRound(sr.root, (a.e - k) \div 2, sr.rem # <<>>)

\* f"{x:.2f}": x in hundredths, correctly rounded (ties to even) from the exact
\* binary value, as Python's float formatting does.
Format2f(x) ==
  IF x.m = <<>> THEN 0
  ELSE LET n == BMulSmall(x.m, 100) IN
    IF x.e >= 0 THEN BToInt(BShl(n, x.e))
    ELSE LET s   == -x.e
             q   == BShr(n, s)
             rem == BSub(n, BShl(q, s))
             c   == BCmp(rem, BShl(<<1>>, s - 1))
             odd == q # <<>> /\ q[1] % 2 = 1
         IN  BToInt(IF c = 1 \/ (c = 0 /\ odd) THEN BAdd(q, <<1>>) ELSE q)

(***************************************************************************)
(* Lines typed at input(): an integer literal, a decimal literal num/scale *)
(* (0.1 is 1/10), or text that is no number.                               *)
(***************************************************************************)
IntLine(n)      == [kind |-> "int", num |-> n, scale |-> 1]
DecLine(n, sc)  == [kind |-> "dec", num |-> n, scale |-> sc]
TextLine        == [kind |-> "text", num |-> 0, scale |-> 1]

\* int(line): ValueError unless the line is an integer literal.
ParseIntOk(line) == line.kind = "int"
ParseInt(line)   == line.num

\* float(line): the float64 nearest to the literal; ValueError on text.
ParseFloatOk(line) == line.kind \in {"int", "dec"}
ParseFloat(line)   == FDivInt(FFromInt(line.num), line.scale)

(***************************************************************************)
(* create_student_data                                                     *)
(***************************************************************************)
DemoMarks ==
  << <<85, 78, 92, 88, 90>>,
     <<76, 82, 79, 85, 88>>,
     <<92, 95, 89, 91, 94>>,
     <<68, 72, 75, 70, 73>>,
     <<88, 85, 87, 89, 86>> >>

DemoNames == <<"Alice", "Bob", "Charlie", "David", "Eve">>

DemoSubjects == <<"Math", "Physics", "Chemistry", "English", "Computer">>

\* A marks array: its shape and its rows (float64 once the statistics read it).
Matrix(r, c, d) == [rows |-> r, cols |-> c, data |-> d]

create_student_data ==
  [marks    |-> Matrix(Len(DemoMarks), Len(DemoMarks[1]),
                       [i \in 1..Len(DemoMarks) |->
                          [j \in 1..Len(DemoMarks[i]) |-> FFromInt(DemoMarks[i][j])]]),
   student_names |-> DemoNames,
   subjects |-> DemoSubjects]

(***************************************************************************)
(* calculate_student_statistics                                            *)
(***************************************************************************)
\* np.add.reduce along a row shorter than 8: one accumulator, left to right.
RECURSIVE SumFrom(_, _, _)
SumFrom(row, k, acc) ==
  IF k > Len(row) THEN acc ELSE SumFrom(row, k + 1, FAdd(acc, row[k]))

RowSum(row) == SumFrom(row, 1, FZero)

\* np.mean(marks, axis=1)[i]
RowMean(row) == FDivInt(RowSum(row), Len(row))

RECURSIVE MaxFrom(_, _, _)
MaxFrom(row, k, acc) ==
  IF k > Len(row) THEN acc
  ELSE MaxFrom(row, k + 1, IF FCmp(row[k], acc) > 0 THEN row[k] ELSE acc)

\* np.max(marks, axis=1)[i], of a row that is not empty
RowMax(row) == MaxFrom(row, 2, row[1])

RECURSIVE MinFrom(_, _, _)
MinFrom(row, k, acc) ==
  IF k > Len(row) THEN acc
  ELSE MinFrom(row, k + 1, IF FCmp(row[k], acc) < 0 THEN row[k] ELSE acc)

\* np.min(marks, axis=1)[i], of a row that is not empty
RowMin(row) == MinFrom(row, 2, row[1])

\* np.std(marks, axis=1)[i], as NumPy's _var computes it: the array of
\* deviations from the mean, its elementwise square, the sum of the squares
\* divided by C (the divisor is C, not C - 1), and the square root; every
\* step rounded.
Deviations(row, mu) == [k \in 1..Len(row) |-> FAbsDiff(row[k], mu)]

Squares(x) == [k \in 1..Len(x) |-> FMul(x[k], x[k])]

RowStd(row) ==
  FSqrt(FDivInt(RowSum(Squares(Deviations(row, RowMean(row)))), Len(row)))

\* calculate_student_statistics with reductions that accept empty rows (as
\* np.max(..., initial=0) would): a matrix without columns gets statistics.
StatisticsOfEmptyRowsReturned(marks) ==
  [error     |-> "none",
   averages  |-> [i \in 1..marks.rows |->
                    IF marks.cols = 0 THEN FZero ELSE RowMean(marks.data[i])],
   maximums  |-> [i \in 1..marks.rows |->
                    IF marks.cols = 0 THEN FZero ELSE RowMax(marks.data[i])],
   minimums  |-> [i \in 1..marks.rows |->
                    IF marks.cols = 0 THEN FZero ELSE RowMin(marks.data[i])],
   std_devs  |-> [i \in 1..marks.rows |->
                    IF marks.cols = 0 THEN FZero ELSE RowStd(marks.data[i])]]

\* The call's outcome.  np.max over an axis of length 0 raises ValueError
\* (a reduction with no identity); np.mean has only warned before it.
calculate_student_statistics(marks) ==
  IF marks.cols = 0
  THEN [error |-> "ValueError", averages |-> <<>>, maximums |-> <<>>,
        minimums |-> <<>>, std_devs |-> <<>>]
  ELSE [error     |-> "none",
        averages  |-> [i \in 1..marks.rows |-> RowMean(marks.data[i])],
        maximums  |-> [i \in 1..marks.rows |-> RowMax(marks.data[i])],
        minimums  |-> [i \in 1..marks.rows |-> RowMin(marks.data[i])],
        std_devs  |-> [i \in 1..marks.rows |-> RowStd(marks.data[i])]]

(***************************************************************************)
(* rank_students                                                           *)
(***************************************************************************)
Perms(n) == {p \in [1..n -> 1..n] : \A i, j \in 1..n : p[i] = p[j] => i = j}

\* np.argsort(-averages) in place of np.argsort(averages): descending orders.
ArgsortDescending(a) ==
  {p \in Perms(Len(a)) :
     \A i, j \in 1..Len(a) : i < j => FLe(a[p[j]], a[p[i]])}

\* np.arange(len(averages)) in place of np.argsort(averages): nothing sorted.
ArgsortUnsorted(a) == {[k \in 1..Len(a) |-> k]}

\* np.argsort(averages): the default kind is 'quicksort', which NumPy
\* documents as not stable, so every index order that sorts the values
\* ascending is a possible result; which one equal values get is up to the
\* build (insertion sort, introsort or a vectorised sorting network).
Argsort(a) ==
  {p \in Perms(Len(a)) :
     \A i, j \in 1..Len(a) : i < j => FLe(a[p[i]], a[p[j]])}

\* s[:-1] in place of s[::-1]: the last element dropped, nothing reversed.
ReverseDropsLast(s) == SubSeq(s, 1, Len(s) - 1)

\* s[::1] in place of s[::-1]: nothing reversed.
ReverseForgotten(s) == s

\* s[::-1]
Reverse(s) == [k \in 1..Len(s) |-> s[Len(s) + 1 - k]]

\* The possible outcomes of one call.  Indexing the names with an index past
\* their end raises IndexError; nothing compares the two lengths.
rank_students(student_names, averages) ==
  {LET sorted_indices == Reverse(p) IN
     IF \E k \in 1..Len(sorted_indices) : sorted_indices[k] > Len(student_names)
     THEN [error |-> "IndexError", sorted_indices |-> sorted_indices,
           ranked_names |-> <<>>, ranked_averages |-> <<>>, ranks |-> <<>>]
     ELSE [error |-> "none", sorted_indices |-> sorted_indices,
           ranked_names    |-> [k \in 1..Len(sorted_indices) |->
                                  student_names[sorted_indices[k]]],
           ranked_averages |-> [k \in 1..Len(sorted_indices) |->
                                  averages[sorted_indices[k]]],
           ranks           |-> [k \in 1..Len(student_names) |-> k]]
   : p \in Argsort(averages)}

(***************************************************************************)
(* The run.  pc is the place the program is at; console holds the sections *)
(* printed so far (prompts are not recorded), report the lines of          *)
(* 'student_analysis.txt', report_before the file as the run found it.     *)
(***************************************************************************)
VARIABLES pc, choice, mode, n_students, n_subjects, marks, student_names,
          subjects, i, j, averages, maximums, minimums, std_devs, ranking,
          console, report, report_before, error

vars == <<pc, choice, mode, n_students, n_subjects, marks, student_names,
          subjects, i, j, averages, maximums, minimums, std_devs, ranking,
          console, report, report_before, error>>

\* The largest student and subject counts typed in interactive mode, and the
\* longest inputs handed to rank_students on its own.
MaxStudents == 2
MaxSubjects == 3
MaxRanked == 3

ChoiceInputs == {"1", "2", "3"}
StudentCountInputs == {TextLine} \cup {IntLine(n) : n \in -1..MaxStudents}
SubjectCountInputs == {TextLine} \cup {IntLine(n) : n \in -1..MaxSubjects}
MarkInputs == {DecLine(1, 10), DecLine(7, 10), TextLine}
NamePool == <<"Ann", "Bob", "Cy", "Dee", "Eli">>
SubjectPool == <<"Math", "Art", "Law", "Gym", "Lit">>

NoMatrix == Matrix(0, 0, <<>>)
NoRanking == [error |-> "none", sorted_indices |-> <<>>, ranked_names |-> <<>>,
              ranked_averages |-> <<>>, ranks |-> <<>>]
NoFile == [exists |-> FALSE, lines |-> <<>>]
OldFile == [exists |-> TRUE, lines |-> <<"old report">>]

Init ==
  /\ pc = "start"
  /\ choice = ""
  /\ mode = "none"
  /\ n_students = 0
  /\ n_subjects = 0
  /\ marks = NoMatrix
  /\ student_names = <<>>
  /\ subjects = <<>>
  /\ i = 0
  /\ j = 0
  /\ averages = <<>>
  /\ maximums = <<>>
  /\ minimums = <<>>
  /\ std_devs = <<>>
  /\ ranking = NoRanking
  /\ console = <<>>
  /\ report \in {NoFile, OldFile}
  /\ report_before = report
  /\ error = "none"

\* An uncaught exception ends the run with a traceback.
Crash(e) == pc' = "crashed" /\ error' = e

\* __main__: the startup prompt.
Startup ==
  /\ pc = "start"
  /\ \E c \in ChoiceInputs :
       /\ choice' = c
       /\ IF c = "2"
          THEN /\ mode' = "interactive"
               /\ pc' = "ask_students"
               /\ console' = console
          ELSE /\ mode' = "demo"
               /\ pc' = "create"
               /\ console' = IF c = "1" THEN console
                             ELSE Append(console, "invalid_choice")
  /\ UNCHANGED <<n_students, n_subjects, marks, student_names, subjects, i, j,
                 averages, maximums, minimums, std_devs, ranking, report,
                 report_before, error>>

\* main, step 1
CreateData ==
  /\ pc = "create"
  /\ marks' = create_student_data.marks
  /\ student_names' = create_student_data.student_names
  /\ subjects' = create_student_data.subjects
  /\ pc' = "calc"
  /\ UNCHANGED <<choice, mode, n_students, n_subjects, i, j, averages, maximums,
                 minimums, std_devs, ranking, console, report, report_before,
                 error>>

\* interactive_mode: n_students = int(input(...))
AskStudents ==
  /\ pc = "ask_students"
  /\ \E line \in StudentCountInputs :
       IF ParseIntOk(line)
       THEN /\ n_students' = ParseInt(line)
            /\ pc' = "ask_subjects"
            /\ error' = error
       ELSE /\ Crash("ValueError")
            /\ n_students' = n_students
  /\ UNCHANGED <<choice, mode, n_subjects, marks, student_names, subjects, i, j,
                 averages, maximums, minimums, std_devs, ranking, console,
                 report, report_before>>

\* interactive_mode: n_subjects = int(input(...)); marks = np.zeros(...), which
\* raises ValueError on a negative dimension.
AskSubjects ==
  /\ pc = "ask_subjects"
  /\ \E line \in SubjectCountInputs :
       IF ParseIntOk(line) /\ ParseInt(line) >= 0 /\ n_students >= 0
       THEN /\ n_subjects' = ParseInt(line)
            /\ marks' = Matrix(n_students, ParseInt(line),
                               [a \in 1..n_students |->
                                  [b \in 1..ParseInt(line) |-> FZero]])
            /\ j' = 0
            /\ pc' = "subject_loop"
            /\ error' = error
       ELSE /\ Crash("ValueError")
            /\ n_subjects' = IF ParseIntOk(line) THEN ParseInt(line)
                             ELSE n_subjects
            /\ UNCHANGED <<marks, j>>
  /\ UNCHANGED <<choice, mode, n_students, student_names, subjects, i, averages,
                 maximums, minimums, std_devs, ranking, console, report,
                 report_before>>

\* for j in range(n_subjects): subjects.append(input(...))
SubjectPrompt ==
  /\ pc = "subject_loop"
  /\ j < n_subjects
  /\ \E name \in {SubjectPool[j + 1]} : subjects' = Append(subjects, name)
  /\ j' = j + 1
  /\ UNCHANGED <<pc, choice, mode, n_students, n_subjects, marks, student_names,
                 i, averages, maximums, minimums, std_devs, ranking, console,
                 report, report_before, error>>

SubjectLoopExit ==
  /\ pc = "subject_loop"
  /\ j = n_subjects
  /\ i' = 0
  /\ pc' = "student_loop"
  /\ UNCHANGED <<choice, mode, n_students, n_subjects, marks, student_names,
                 subjects, j, averages, maximums, minimums, std_devs, ranking,
                 console, report, report_before, error>>

\* for i in range(n_students): name = input(...); student_names.append(name)
StudentPrompt ==
  /\ pc = "student_loop"
  /\ i < n_students
  /\ \E name \in {NamePool[i + 1]} : student_names' = Append(student_names, name)
  /\ j' = 0
  /\ pc' = "mark_loop"
  /\ UNCHANGED <<choice, mode, n_students, n_subjects, marks, subjects, i,
                 averages, maximums, minimums, std_devs, ranking, console,
                 report, report_before, error>>

\* marks[i, j] = float(input(...))
MarkPrompt ==
  /\ pc = "mark_loop"
  /\ j < n_subjects
  /\ \E line \in MarkInputs :
       IF ParseFloatOk(line)
       THEN /\ marks' = [marks EXCEPT !.data[i + 1][j + 1] = ParseFloat(line)]
            /\ j' = j + 1
            /\ UNCHANGED <<pc, error>>
       ELSE /\ Crash("ValueError")
            /\ UNCHANGED <<marks, j>>
  /\ UNCHANGED <<choice, mode, n_students, n_subjects, student_names, subjects,
                 i, averages, maximums, minimums, std_devs, ranking, console,
                 report, report_before>>

MarkLoopExit ==
  /\ pc = "mark_loop"
  /\ j = n_subjects
  /\ i' = i + 1
  /\ pc' = "student_loop"
  /\ UNCHANGED <<choice, mode, n_students, n_subjects, marks, student_names,
                 subjects, j, averages, maximums, minimums, std_devs, ranking,
                 console, report, report_before, error>>

StudentLoopExit ==
  /\ pc = "student_loop"
  /\ i = n_students
  /\ pc' = "calc"
  /\ UNCHANGED <<choice, mode, n_students, n_subjects, marks, student_names,
                 subjects, i, j, averages, maximums, minimums, std_devs, ranking,
                 console, report, report_before, error>>

\* averages, maximums, minimums, std_devs = calculate_student_statistics(marks)
CalcStats ==
  /\ pc = "calc"
  /\ \E st \in {calculate_student_statistics(marks)} :
       IF st.error = "none"
       THEN /\ averages' = st.averages
            /\ maximums' = st.maximums
            /\ minimums' = st.minimums
            /\ std_devs' = st.std_devs
            /\ pc' = "display_marks"
            /\ error' = error
       ELSE /\ Crash(st.error)
            /\ UNCHANGED <<averages, maximums, minimums, std_devs>>
  /\ UNCHANGED <<choice, mode, n_students, n_subjects, marks, student_names,
                 subjects, i, j, ranking, console, report, report_before>>

\* display_results, section by section.
DisplayMarks ==
  /\ pc = "display_marks"
  /\ console' = Append(console, "marks_table")
  /\ pc' = "display_stats"
  /\ UNCHANGED <<choice, mode, n_students, n_subjects, marks, student_names,
                 subjects, i, j, averages, maximums, minimums, std_devs, ranking,
                 report, report_before, error>>

DisplayStats ==
  /\ pc = "display_stats"
  /\ console' = Append(console, "stats_table")
  /\ pc' = "display_rankings"
  /\ UNCHANGED <<choice, mode, n_students, n_subjects, marks, student_names,
                 subjects, i, j, averages, maximums, minimums, std_devs, ranking,
                 report, report_before, error>>

DisplayRankings ==
  /\ pc = "display_rankings"
  /\ \E r \in rank_students(student_names, averages) :
       /\ ranking' = r
       /\ IF r.error = "none"
          THEN /\ console' = Append(console, "rankings")
               /\ pc' = "display_class"
               /\ error' = error
          ELSE /\ console' = Append(console, "rankings_partial")
               /\ Crash(r.error)
  /\ UNCHANGED <<choice, mode, n_students, n_subjects, marks, student_names,
                 subjects, i, j, averages, maximums, minimums, std_devs, report,
                 report_before>>

\* np.max(averages) of an empty array raises ValueError, after the header,
\* the student count and the class average have been printed.
DisplayClassStats ==
  /\ pc = "display_class"
  /\ IF Len(averages) = 0
     THEN /\ console' = Append(console, "class_stats_partial")
          /\ Crash("ValueError")
     ELSE /\ console' = Append(console, "class_stats")
          /\ pc' = "display_subjects"
          /\ error' = error
  /\ UNCHANGED <<choice, mode, n_students, n_subjects, marks, student_names,
                 subjects, i, j, averages, maximums, minimums, std_devs, ranking,
                 report, report_before>>

\* The last section; main goes on to save, interactive_mode returns.
DisplaySubjectAverages ==
  /\ pc = "display_subjects"
  /\ console' = Append(console, "subject_averages")
  /\ pc' = IF mode = "demo" THEN "save_open" ELSE "done"
  /\ UNCHANGED <<choice, mode, n_students, n_subjects, marks, student_names,
                 subjects, i, j, averages, maximums, minimums, std_devs, ranking,
                 report, report_before, error>>

\* main: open('student_analysis.txt', 'w') truncates; then the two header lines.
SaveOpen ==
  /\ pc = "save_open"
  /\ console' = Append(console, "saving")
  /\ report' = [exists |-> TRUE, lines |-> <<"header">>]
  /\ i' = 0
  /\ pc' = "save_write"
  /\ UNCHANGED <<choice, mode, n_students, n_subjects, marks, student_names,
                 subjects, j, averages, maximums, minimums, std_devs, ranking,
                 report_before, error>>

\* The file cannot be opened for writing (OSError): nothing is written.
SaveOpenFails ==
  /\ pc = "save_open"
  /\ console' = Append(console, "saving")
  /\ Crash("OSError")
  /\ UNCHANGED <<choice, mode, n_students, n_subjects, marks, student_names,
                 subjects, i, j, averages, maximums, minimums, std_devs, ranking,
                 report, report_before>>

\* The record of the student ranked k-th in place of the k-th student.
ReportRecordRanked(k) ==
  [name    |-> ranking.ranked_names[k],
   average |-> Format2f(ranking.ranked_averages[k]),
   maximum |-> Format2f(maximums[ranking.sorted_indices[k]]),
   minimum |-> Format2f(minimums[ranking.sorted_indices[k]]),
   std_dev |-> Format2f(std_devs[ranking.sorted_indices[k]])]

\* f.write(...) of one student: name, average, highest, lowest, std dev (.2f)
ReportRecord(k) ==
  [name    |-> student_names[k],
   average |-> Format2f(averages[k]),
   maximum |-> Format2f(maximums[k]),
   minimum |-> Format2f(minimums[k]),
   std_dev |-> Format2f(std_devs[k])]

\* for i, name in enumerate(student_names): the five lines of one student
SaveRecord ==
  /\ pc = "save_write"
  /\ i < Len(student_names)
  /\ report' = [report EXCEPT !.lines = Append(@, ReportRecord(i + 1))]
  /\ i' = i + 1
  /\ UNCHANGED <<pc, choice, mode, n_students, n_subjects, marks, student_names,
                 subjects, j, averages, maximums, minimums, std_devs, ranking,
                 console, report_before, error>>

SaveClose ==
  /\ pc = "save_write"
  /\ i = Len(student_names)
  /\ console' = Append(console, "saved")
  /\ pc' = "done"
  /\ UNCHANGED <<choice, mode, n_students, n_subjects, marks, student_names,
                 subjects, i, j, averages, maximums, minimums, std_devs, ranking,
                 report, report_before, error>>

Next ==
  \/ Startup
  \/ CreateData
  \/ AskStudents
  \/ AskSubjects
  \/ SubjectPrompt
  \/ SubjectLoopExit
  \/ StudentPrompt
  \/ MarkPrompt
  \/ MarkLoopExit
  \/ StudentLoopExit
  \/ CalcStats
  \/ DisplayMarks
  \/ DisplayStats
  \/ DisplayRankings
  \/ DisplayClassStats
  \/ DisplaySubjectAverages
  \/ SaveOpen
  \/ SaveOpenFails
  \/ SaveRecord
  \/ SaveClose

Spec == Init /\ [][Next]_vars

(***************************************************************************)
(* rank_students on its own: any names and any means, of any two lengths.  *)
(***************************************************************************)
RankMeans == {FFromInt(70), FFromInt(82), ParseFloat(DecLine(866, 10))}

InitRank ==
  /\ pc = "rank_call"
  /\ choice = ""
  /\ mode = "none"
  /\ n_students = 0
  /\ n_subjects = 0
  /\ marks = NoMatrix
  /\ student_names \in {SubSeq(NamePool, 1, n) : n \in 0..MaxRanked}
  /\ subjects = <<>>
  /\ i = 0
  /\ j = 0
  /\ averages \in UNION {[1..n -> RankMeans] : n \in 0..MaxRanked}
  /\ maximums = <<>>
  /\ minimums = <<>>
  /\ std_devs = <<>>
  /\ ranking = NoRanking
  /\ console = <<>>
  /\ report = NoFile
  /\ report_before = NoFile
  /\ error = "none"

RankCall ==
  /\ pc = "rank_call"
  /\ \E r \in rank_students(student_names, averages) :
       /\ ranking' = r
       /\ IF r.error = "none"
          THEN pc' = "rank_done" /\ error' = error
          ELSE Crash(r.error)
  /\ UNCHANGED <<choice, mode, n_students, n_subjects, marks, student_names,
                 subjects, i, j, averages, maximums, minimums, std_devs, console,
                 report, report_before>>

NextRank == RankCall

SpecRank == InitRank /\ [][NextRank]_vars

(***************************************************************************)
(* Properties of rank_students (checked under SpecRank).                   *)
(***************************************************************************)
RankReturned == pc = "rank_done"
SameLengths == Len(student_names) = Len(averages)

\* The place of row a in the ranking.
PlaceOf(a) == CHOOSE k \in 1..Len(ranking.sorted_indices) :
                ranking.sorted_indices[k] = a

\* Rows a < b with equal means.
Tied(a, b) ==
  /\ a \in 1..Len(averages)
  /\ b \in 1..Len(averages)
  /\ a < b
  /\ averages[a] = averages[b]

\* The reference order: the stable ascending sort of the row indices by mean
\* (equal means keep their row order), then reversed.
StableAscending(a) ==
  CHOOSE p \in Perms(Len(a)) :
    \A x, y \in 1..Len(a) :
      x < y => \/ FCmp(a[p[x]], a[p[y]]) < 0
               \/ (a[p[x]] = a[p[y]] /\ p[x] < p[y])

ReferenceOrder(a) ==
  [k \in 1..Len(a) |-> StableAscending(a)[Len(a) + 1 - k]]

\* C1: with names and means of one length R the call returns, and returns
\* three sequences of length R; the (name, mean) pairs are a permutation of
\* the input rows and ranks is 1, 2, ..., R whatever the ties.
C1_RankingIsPermutation ==
  (SameLengths /\ pc # "rank_call") =>
    /\ RankReturned
    /\ Len(ranking.ranked_names) = Len(student_names)
    /\ Len(ranking.ranked_averages) = Len(student_names)
    /\ Len(ranking.ranks) = Len(student_names)
    /\ \E q \in Perms(Len(student_names)) :
         \A k \in 1..Len(student_names) :
           /\ ranking.ranked_names[k] = student_names[q[k]]
           /\ ranking.ranked_averages[k] = averages[q[k]]
    /\ \A k \in 1..Len(student_names) : ranking.ranks[k] = k

C1_TiedRowsRanked ==
  /\ RankReturned
  /\ Len(student_names) = 3
  /\ Len(averages) = 3
  /\ averages[1] = averages[3]
  /\ averages[2] # averages[1]
  /\ ranking.ranks = <<1, 2, 3>>

\* C2: the ranked means never increase, and rank 1 holds the largest mean.
C2_RankedMeansDescend ==
  (SameLengths /\ RankReturned) =>
    /\ \A x, y \in 1..Len(ranking.ranked_averages) :
         x < y => FLe(ranking.ranked_averages[y], ranking.ranked_averages[x])
    /\ \A k \in 1..Len(averages) : FLe(averages[k], ranking.ranked_averages[1])

C2_UnsortedInputRanked ==
  /\ RankReturned
  /\ Len(student_names) = 3
  /\ Len(averages) = 3
  /\ FCmp(averages[1], averages[2]) < 0
  /\ FCmp(averages[3], averages[1]) < 0
  /\ ranking.ranked_names = <<NamePool[2], NamePool[1], NamePool[3]>>

\* C3 as stated: of two rows with equal means the one with the smaller row
\* index is ranked first.
C3_TiesKeepRowOrder ==
  (SameLengths /\ RankReturned) =>
    \A a, b \in 1..Len(averages) : Tied(a, b) => PlaceOf(a) < PlaceOf(b)

\* C3 as amended: rows with equal means take consecutive ranks (every row
\* ranked between two of them has their mean); which of them comes first is
\* not fixed.
C3_TiesTakeConsecutiveRanks ==
  (SameLengths /\ RankReturned) =>
    \A a, b, c \in 1..Len(averages) :
      (Tied(a, b) /\ \/ (PlaceOf(a) < PlaceOf(c) /\ PlaceOf(c) < PlaceOf(b))
                     \/ (PlaceOf(b) < PlaceOf(c) /\ PlaceOf(c) < PlaceOf(a)))
        => averages[c] = averages[a]

C3_LaterRowRankedFirst ==
  /\ RankReturned
  /\ Len(student_names) = 3
  /\ Len(averages) = 3
  /\ Tied(1, 3)
  /\ FCmp(averages[2], averages[1]) < 0
  /\ ranking.ranked_names = <<NamePool[3], NamePool[1], NamePool[2]>>

\* C4 as stated: the index order is the reference order, for every input.
C4_OrderIsReferenceOrder ==
  (SameLengths /\ RankReturned) =>
    ranking.sorted_indices = ReferenceOrder(averages)

\* C4 as amended: the index order lists, place by place, the means the
\* reference order lists, and it is the reference order when no two means
\* are equal.
C4_OrderMatchesReferenceUpToTies ==
  (SameLengths /\ RankReturned) =>
    /\ Len(ranking.sorted_indices) = Len(averages)
    /\ \A k \in 1..Len(averages) :
         averages[ranking.sorted_indices[k]] = averages[ReferenceOrder(averages)[k]]
    /\ (\A a, b \in 1..Len(averages) : ~Tied(a, b))
         => ranking.sorted_indices = ReferenceOrder(averages)

C4_DistinctMeansRanked ==
  /\ RankReturned
  /\ Len(student_names) = 3
  /\ Len(averages) = 3
  /\ \A a, b \in 1..3 : ~Tied(a, b)
  /\ ranking.sorted_indices = <<2, 3, 1>>
  /\ ranking.sorted_indices = ReferenceOrder(averages)

\* C8: names and means of different lengths make the call fail; it never
\* returns.
C8_LengthMismatchFails ==
  (~SameLengths /\ pc # "rank_call") => pc = "crashed"

(***************************************************************************)
(* Properties of a run (checked under Spec).                               *)
(***************************************************************************)
Displaying == {"display_marks", "display_stats", "display_rankings",
               "display_class", "display_subjects"}
Saving == {"save_open", "save_write"}

\* calculate_student_statistics has returned to its caller.
StatisticsReturned == pc \in Displaying \cup Saving \cup {"done"}

ValidMatrix == marks.rows >= 1 /\ marks.cols >= 1

AllEqual(row) == \A k \in 1..Len(row) : row[k] = row[1]

DisplaySections == <<"marks_table", "stats_table", "rankings", "class_stats",
                     "subject_averages">>

\* Every section of display_results has been printed, in its order (after the
\* notice of an invalid choice, if there was one).
DisplayFinished ==
  \E o \in {0, 1} :
    /\ Len(console) >= o + Len(DisplaySections)
    /\ SubSeq(console, o + 1, o + Len(DisplaySections)) = DisplaySections

\* C5: for a matrix of R >= 1 rows and C >= 1 columns the four statistics
\* have R entries each, and every row's mean lies between the row's minimum
\* and its maximum.
C5_MeanBetweenExtrema ==
  (StatisticsReturned /\ ValidMatrix) =>
    /\ Len(averages) = marks.rows
    /\ Len(maximums) = marks.rows
    /\ Len(minimums) = marks.rows
    /\ Len(std_devs) = marks.rows
    /\ \A r \in 1..marks.rows :
         /\ FLe(minimums[r], averages[r])
         /\ FLe(averages[r], maximums[r])

\* C6: a row's standard deviation is zero exactly when all the values of the
\* row are equal.
C6_StdZeroIffAllEqual ==
  (StatisticsReturned /\ ValidMatrix) =>
    \A r \in 1..marks.rows :
      (std_devs[r] = FZero) <=> AllEqual(marks.data[r])

\* C7: with rows that have no columns the statistics call fails: the run ends
\* there with the ValueError, no statistics are kept, nothing has been
\* displayed, and the report file is as the run found it.
C7_EmptyRowsFail ==
  (marks.rows >= 1 /\ marks.cols = 0
     /\ pc \notin {"subject_loop", "student_loop", "mark_loop", "calc"}) =>
    /\ pc = "crashed"
    /\ error = "ValueError"
    /\ averages = <<>> /\ maximums = <<>> /\ minimums = <<>> /\ std_devs = <<>>
    /\ console = <<>>
    /\ report = report_before

C7_EmptyRowsCrashed ==
  /\ pc = "crashed"
  /\ mode = "interactive"
  /\ marks.rows = MaxStudents
  /\ marks.cols = 0
  /\ Len(student_names) = MaxStudents
  /\ report_before = OldFile

\* C9: in interactive mode a student or subject count that is not positive
\* ends the run with an error before statistics are computed or displayed:
\* the statistics call never returns, nothing is displayed, and the run does
\* not end normally.
C9_NonPositiveCountFailsEarly ==
  (mode = "interactive" /\ pc \notin {"ask_students", "ask_subjects"}
     /\ (n_students < 1 \/ n_subjects < 1)) =>
    /\ ~StatisticsReturned
    /\ console = <<>>
    /\ (pc = "crashed" => error = "ValueError")

\* C10: the report file differs from what the run found only on the demo
\* path, only once the statistics are computed and every display section is
\* printed; a finished run has written it exactly when it is a demo run that
\* reached its end, and then the file is the header followed by one record
\* per student in the order of the rows; an interactive run leaves it alone.
C10_ReportWrittenIffDemoCompletes ==
  /\ (report # report_before) =>
       /\ mode = "demo"
       /\ pc \in {"save_write", "done"}
       /\ Len(averages) = marks.rows
       /\ DisplayFinished
  /\ (pc \in {"done", "crashed"}) =>
       ((report # report_before) <=> (mode = "demo" /\ pc = "done"))
  /\ (mode = "demo" /\ pc = "done") =>
       /\ report.exists
       /\ Len(report.lines) = 1 + marks.rows
       /\ report.lines[1] = "header"
       /\ \A k \in 1..marks.rows :
            /\ report.lines[k + 1].name = student_names[k]
            /\ report.lines[k + 1].average = Format2f(averages[k])
            /\ report.lines[k + 1].maximum = Format2f(maximums[k])
            /\ report.lines[k + 1].minimum = Format2f(minimums[k])
            /\ report.lines[k + 1].std_dev = Format2f(std_devs[k])
  /\ (mode = "interactive") => report = report_before

C10_DemoReportInRowOrder ==
  /\ pc = "done"
  /\ mode = "demo"
  /\ choice = "3"
  /\ report_before = OldFile
  /\ ranking.ranked_names[1] # student_names[1]
  /\ report.lines[2].name = student_names[1]
  /\ Len(report.lines) = 1 + Len(student_names)
====
